---- MODULE Spec2Model ----
(***************************************************************************)
(* Model of the batch sentiment-analysis pipeline of server/routes.ts:     *)
(* POST /api/analyze, POST /api/analyze/batch, analyzeSingleFeedback and   *)
(* generateBatchSummary.  JavaScript is single threaded: a handler runs to *)
(* its next await without interruption.  The variable cur holds the        *)
(* continuation that is running; while it is set no other step is taken.   *)
(***************************************************************************)
EXTENDS Integers, Sequences, FiniteSets, TLC

(* ------------------------------------------------------------------ *)
(* Bounds of the model                                                 *)
(* ------------------------------------------------------------------ *)
\* largest batch that is submitted by the model (two chunks need > 5)
MaxN == 6

(* ------------------------------------------------------------------ *)
(* Program constants                                                   *)
(* ------------------------------------------------------------------ *)
chunkSize == 5
retries == 2
MaxFeedbacks == 100
MaxFeedbackLen == 5000
topEmotionsCap == 5
commonThemesCap == 10
recommendationsCap == 5

(* ------------------------------------------------------------------ *)
(* JavaScript values: a tag t and, where there is one, a payload v     *)
(* ------------------------------------------------------------------ *)
Undef == [t |-> "undefined"]
JNull == [t |-> "null"]
Str(s) == [t |-> "str", v |-> s]
Num(n) == [t |-> "num", v |-> n]
Lst(q) == [t |-> "list", v |-> q]
Obj(f) == [t |-> "object", v |-> f]

\* ToBoolean: undefined, null, "" and 0 are falsy
Truthy(x) ==
  CASE x.t = "undefined" -> FALSE
    [] x.t = "null" -> FALSE
    [] x.t = "str" -> x.v # ""
    [] x.t = "num" -> x.v # 0
    [] OTHER -> TRUE

\* a || d
OrElse(x, d) == IF Truthy(x) THEN x ELSE d

\* a ?? d
Nullish(x, d) == IF x.t \in {"undefined", "null"} THEN d ELSE x

\* result.<name>: undefined when the property is missing or the value is a primitive
Get(x, name) ==
  IF x.t = "object" /\ name \in DOMAIN x.v THEN x.v[name] ELSE Undef

\* reading a property of null or undefined raises a TypeError
PropertyReadThrows(x) == x.t \in {"undefined", "null"}

\* String.prototype.toLowerCase on the strings of the model
toLowerCase(s) ==
  CASE s = "Great Support" -> "great support"
    [] s = "Slow Shipping" -> "slow shipping"
    [] s = "Keep It Up" -> "keep it up"
    [] s = "Speed Up Delivery" -> "speed up delivery"
    [] s = "Extend Warranty" -> "extend warranty"
    [] OTHER -> s

(* ------------------------------------------------------------------ *)
(* Provider replies                                                    *)
(* ------------------------------------------------------------------ *)
Emotion(name, intensity) == [name |-> Str(name), intensity |-> Num(intensity)]
KeyPhrase(phrase, sentiment) == [phrase |-> Str(phrase), sentiment |-> Str(sentiment)]
Recommendation(title, description) ==
  [title |-> Str(title), description |-> Str(description),
   category |-> Str("process"), impact |-> Str("high"), timeframe |-> Str("immediate")]

\* the stubbed reply of the spec's single-item scenario, fully populated
ReplyGood ==
  Obj([sentiment |-> Str("positive"), sentimentScore |-> Num(95), confidence |-> Num(90),
       urgencyLevel |-> Str("low"), customerIntent |-> Str("praise"),
       emotions |-> Lst(<<Emotion("joy", 80)>>),
       keyPhrases |-> Lst(<<KeyPhrase("Great Support", "positive")>>),
       insights |-> Lst(<<[text |-> Str("happy"), priority |-> Str("low")]>>),
       recommendations |-> Lst(<<Recommendation("Keep It Up", "first")>>),
       summary |-> Str("good"), detailedAnalysis |-> Str("very good")])

\* numbers outside 0..100 and values outside the enums
ReplyOutOfRange ==
  Obj([sentiment |-> Str("mixed"), sentimentScore |-> Num(150), confidence |-> Num(0 - 5),
       urgencyLevel |-> Str("urgent"),
       emotions |-> Lst(<<Emotion("anger", 70), Emotion("joy", 10)>>),
       keyPhrases |-> Lst(<<KeyPhrase("great support", "negative"),
                            KeyPhrase("Slow Shipping", "negative")>>),
       recommendations |-> Lst(<<Recommendation("keep it up", "second"),
                                 Recommendation("Speed Up Delivery", "third")>>)])

\* a list field that is not a list
ReplyBadList ==
  Obj([sentiment |-> Str("negative"), sentimentScore |-> Num(20), confidence |-> Num(60),
       urgencyLevel |-> Str("high"), emotions |-> Str("anger")])

\* a JSON object without any of the fields
ReplyEmptyObject == Obj(<<>>)

\* what the provider call of one attempt does: it throws (with an HTTP
\* status when there is one), or resolves with a message content
ThrowOutcome(status) == [kind |-> "throw", status |-> status]
EmptyContent == [kind |-> "content", text |-> "empty"]
GarbageContent == [kind |-> "content", text |-> "garbage"]
JsonContent(x) == [kind |-> "content", text |-> "json", value |-> x]

\* the provider call timed out: a connection error without an HTTP status
TimeoutOutcome == [kind |-> "throw", status |-> 0, code |-> "ETIMEDOUT"]

DecodedValues == {ReplyGood, ReplyOutOfRange, ReplyBadList, JNull}

\* outcomes offered to the calls of a batch
BatchOutcomes ==
  {ThrowOutcome(0), EmptyContent, GarbageContent} \cup {JsonContent(x) : x \in DecodedValues}

\* outcomes offered to the call of POST /api/analyze
SingleOutcomes ==
  BatchOutcomes \cup {ThrowOutcome(401), ThrowOutcome(429), TimeoutOutcome,
                      JsonContent(ReplyEmptyObject), JsonContent(Num(7))}

\* !content
ContentIsEmpty(o) == o.kind = "content" /\ o.text = "empty"

\* JSON.parse(content): a value, or a SyntaxError
JSONparse(o) ==
  IF o.text = "json" THEN [ok |-> TRUE, value |-> o.value] ELSE [ok |-> FALSE]

(* ------------------------------------------------------------------ *)
(* Normalization of a decoded reply                                    *)
(* ------------------------------------------------------------------ *)
\* the object literal built from the decoded reply
normalize(result) ==
  [sentiment |-> OrElse(Get(result, "sentiment"), Str("neutral")),
   sentimentScore |-> Nullish(Get(result, "sentimentScore"), Num(50)),
   confidence |-> Nullish(Get(result, "confidence"), Num(0)),
   urgencyLevel |-> OrElse(Get(result, "urgencyLevel"), Str("medium")),
   customerIntent |-> OrElse(Get(result, "customerIntent"), Str("")),
   emotions |-> OrElse(Get(result, "emotions"), Lst(<<>>)),
   keyPhrases |-> OrElse(Get(result, "keyPhrases"), Lst(<<>>)),
   insights |-> OrElse(Get(result, "insights"), Lst(<<>>)),
   recommendations |-> OrElse(Get(result, "recommendations"), Lst(<<>>)),
   summary |-> OrElse(Get(result, "summary"), Str("")),
   detailedAnalysis |-> OrElse(Get(result, "detailedAnalysis"), Str(""))]

(* ------------------------------------------------------------------ *)
(* generateBatchSummary                                                *)
(* ------------------------------------------------------------------ *)
MathRoundDown(num, den) == num \div den

\* Math.round(num / den) for den > 0: nearest integer, halves towards +infinity
MathRound(num, den) == (2 * num + den) \div (2 * den)

CountWhereNot(rs, field, val) == Cardinality({k \in 1..Len(rs) : rs[k][field] # Str(val)})

\* array.filter(pred).length for a predicate on one field
CountWhere(rs, field, val) == Cardinality({k \in 1..Len(rs) : rs[k][field] = Str(val)})

\* completedResults.reduce((sum, r) => sum + r.<field>, 0)
RECURSIVE SumField(_, _)
SumField(rs, field) ==
  IF rs = <<>> THEN 0 ELSE SumField(SubSeq(rs, 1, Len(rs) - 1), field) + rs[Len(rs)][field].v

\* the property key a value is converted to
KeyOf(x) == IF x.t = "str" THEN x.v ELSE "undefined"

\* the elements of one list field of every result, in scan order
RECURSIVE Scan(_, _)
Scan(rs, field) ==
  IF rs = <<>> THEN <<>> ELSE rs[1][field].v \o Scan(Tail(rs), field)

\* the positions at which a key occurs for the first time
FirstPositions(keys) == {p \in 1..Len(keys) : \A q \in 1..(p - 1) : keys[q] # keys[p]}

\* the r-th smallest member of a set of positions
NthOf(S, r) == CHOOSE p \in S : Cardinality({q \in S : q < p}) = r - 1

\* counts[key] = (counts[key] || 0) + 1 over a sequence of elements and
\* their keys: one entry per key, in the order in which the keys were first
\* inserted, with the number of occurrences of the key and the first
\* element seen with it
CountInto(elems, keys) ==
  LET fp == FirstPositions(keys)
  IN [r \in 1..Cardinality(fp) |->
        LET p == NthOf(fp, r)
        IN [key |-> keys[p], first |-> elems[p],
            count |-> Cardinality({q \in 1..Len(keys) : keys[q] = keys[p]})]]

\* the place a stable descending sort gives e among entries already sorted
InsertByCount(sorted, e) ==
  LET smaller == {p \in 1..Len(sorted) : sorted[p].count < e.count}
      at == IF smaller = {} THEN Len(sorted) + 1
            ELSE CHOOSE p \in smaller : \A q \in smaller : p <= q
  IN SubSeq(sorted, 1, at - 1) \o <<e>> \o SubSeq(sorted, at, Len(sorted))

\* .sort((a, b) => b.count - a.count): stable, count descending
RECURSIVE SortByCountDesc(_)
SortByCountDesc(entries) ==
  IF entries = <<>> THEN <<>>
  ELSE InsertByCount(SortByCountDesc(SubSeq(entries, 1, Len(entries) - 1)),
                     entries[Len(entries)])

\* .slice(0, n)
Slice(s, n) == SubSeq(s, 1, IF Len(s) < n THEN Len(s) ELSE n)

\* .filter(([, count]) => count > 1)
RECURSIVE MoreThanOnce(_)
MoreThanOnce(entries) ==
  IF entries = <<>> THEN <<>>
  ELSE (IF entries[1].count > 1 THEN <<entries[1]>> ELSE <<>>) \o MoreThanOnce(Tail(entries))

\* the array index a property key denotes ("7" is 7), or -1 for a key that
\* is not the canonical decimal form of an integer below 2^32 - 1
ArrayIndexOf(key) ==
  CASE key = "2" -> 2
    [] key = "7" -> 7
    [] key = "404" -> 404
    [] OTHER -> 0 - 1

HasIndexKey(e) == ArrayIndexOf(e.key) >= 0
HasStringKey(e) == ArrayIndexOf(e.key) < 0

\* the place ascending index order gives e among entries already in that order
InsertByIndex(sorted, e) ==
  LET larger == {p \in 1..Len(sorted) : ArrayIndexOf(sorted[p].key) > ArrayIndexOf(e.key)}
      at == IF larger = {} THEN Len(sorted) + 1
            ELSE CHOOSE p \in larger : \A q \in larger : p <= q
  IN SubSeq(sorted, 1, at - 1) \o <<e>> \o SubSeq(sorted, at, Len(sorted))

RECURSIVE AscendingIndex(_)
AscendingIndex(entries) ==
  IF entries = <<>> THEN <<>>
  ELSE InsertByIndex(AscendingIndex(SubSeq(entries, 1, Len(entries) - 1)),
                     entries[Len(entries)])

\* Object.entries / Object.values of a counts object: the keys that are
\* array indices first, in ascending numeric order, then the other keys in
\* the order of their insertion
ObjectEntries(entries) ==
  AscendingIndex(SelectSeq(entries, HasIndexKey)) \o SelectSeq(entries, HasStringKey)

EmotionKeys(es) == [p \in 1..Len(es) |-> KeyOf(es[p].name)]
PhraseKeys(kps) == [p \in 1..Len(kps) |-> toLowerCase(kps[p].phrase.v)]

TitleKeysCaseSensitive(recs) == [p \in 1..Len(recs) |-> recs[p].title.v]

\* rec.title.toLowerCase()
TitleKeys(recs) == [p \in 1..Len(recs) |-> toLowerCase(recs[p].title.v)]

\* forEach on a value that is not an array, or toLowerCase on a value
\* that is not a string, raises a TypeError
SummaryThrows(rs) ==
  \E k \in 1..Len(rs) :
    \/ rs[k].emotions.t # "list"
    \/ rs[k].keyPhrases.t # "list"
    \/ rs[k].recommendations.t # "list"
    \/ \E p \in 1..Len(rs[k].keyPhrases.v) : rs[k].keyPhrases.v[p].phrase.t # "str"
    \/ \E p \in 1..Len(rs[k].recommendations.v) : rs[k].recommendations.v[p].title.t # "str"

totalCountOfResults(its, rs) == Len(rs)

totalCountOf(its, rs) == Len(its)

averageOfNeutralDefault(rs, field) ==
  IF Len(rs) > 0 THEN MathRound(SumField(rs, field), Len(rs)) ELSE 50

averageOf(rs, field) ==
  IF Len(rs) > 0 THEN MathRound(SumField(rs, field), Len(rs)) ELSE 0

topEmotionsOf(rs) ==
  LET counts == CountInto(Scan(rs, "emotions"), EmotionKeys(Scan(rs, "emotions")))
      sorted == Slice(SortByCountDesc(ObjectEntries(counts)), topEmotionsCap)
  IN [p \in 1..Len(sorted) |-> [name |-> sorted[p].key, count |-> sorted[p].count]]

commonThemesOf(rs) ==
  LET counts == CountInto(Scan(rs, "keyPhrases"), PhraseKeys(Scan(rs, "keyPhrases")))
      sorted == Slice(SortByCountDesc(MoreThanOnce(ObjectEntries(counts))), commonThemesCap)
  IN [p \in 1..Len(sorted) |-> sorted[p].key]

overallRecommendationsOf(rs) ==
  LET counts == CountInto(Scan(rs, "recommendations"),
                          TitleKeys(Scan(rs, "recommendations")))
      sorted == Slice(SortByCountDesc(ObjectEntries(counts)), recommendationsCap)
  IN [p \in 1..Len(sorted) |-> sorted[p].first]

\* Boolean(x) for an entry of the results list: a result object is truthy
IsTruthyEntry(x) == IF "t" \in DOMAIN x THEN Truthy(x) ELSE TRUE

\* results.filter(Boolean)
RECURSIVE completedResultsOf(_)
completedResultsOf(results) ==
  IF results = <<>> THEN <<>>
  ELSE (IF IsTruthyEntry(results[1]) THEN <<results[1]>> ELSE <<>>)
         \o completedResultsOf(Tail(results))

\* the summary of the completed results, or the exception raised while computing it
summaryOf(its, rs) ==
  IF SummaryThrows(rs) THEN [threw |-> TRUE]
  ELSE [threw |-> FALSE,
        value |->
          [totalCount |-> totalCountOf(its, rs),
           positiveCount |-> CountWhere(rs, "sentiment", "positive"),
           negativeCount |-> CountWhere(rs, "sentiment", "negative"),
           neutralCount |-> CountWhere(rs, "sentiment", "neutral"),
           averageSentimentScore |-> averageOf(rs, "sentimentScore"),
           averageConfidence |-> averageOf(rs, "confidence"),
           topEmotions |-> topEmotionsOf(rs),
           urgencyBreakdown |->
             [critical |-> CountWhere(rs, "urgencyLevel", "critical"),
              high |-> CountWhere(rs, "urgencyLevel", "high"),
              medium |-> CountWhere(rs, "urgencyLevel", "medium"),
              low |-> CountWhere(rs, "urgencyLevel", "low")],
           commonThemes |-> commonThemesOf(rs),
           overallRecommendations |-> overallRecommendationsOf(rs)]]

generateBatchSummary(its, results) == summaryOf(its, completedResultsOf(results))

(* ------------------------------------------------------------------ *)
(* Requests                                                            *)
(* ------------------------------------------------------------------ *)
\* string.length of the feedback texts of the model
Length(text) ==
  CASE text = "" -> 0
    [] text = "tooLong" -> MaxFeedbackLen + 1
    [] OTHER -> 3

ValidTexts == <<"fb1", "fb2", "fb3">>

\* n texts, neighbours different from each other
Cycle(n) == [k \in 1..n |-> ValidTexts[((k - 1) % 3) + 1]]

ValidBatches == {Cycle(n) : n \in 1..MaxN} \cup {<<"fb2", "fb2">>}

InvalidBatches ==
  {<<>>, <<"fb1", "">>, <<"tooLong">>, [k \in 1..(MaxFeedbacks + 1) |-> "fb1"]}

\* z.string().min(1).max(5000)
feedbackStringValid(text) == Length(text) >= 1 /\ Length(text) <= MaxFeedbackLen

batchAnalysisRequestValidLengthOnly(feedbacks) ==
  Len(feedbacks) >= 1 /\ Len(feedbacks) <= MaxFeedbacks

\* batchAnalysisRequestSchema.safeParse(req.body).success
batchAnalysisRequestValid(feedbacks) ==
  /\ Len(feedbacks) >= 1
  /\ Len(feedbacks) <= MaxFeedbacks
  /\ \A k \in 1..Len(feedbacks) : feedbackStringValid(feedbacks[k])

\* sentimentAnalysisRequestSchema.safeParse(req.body).success
sentimentAnalysisRequestValid(text) == feedbackStringValid(text)

(* ------------------------------------------------------------------ *)
(* State                                                               *)
(* ------------------------------------------------------------------ *)
VARIABLES
  req,       \* the feedback strings of the request body
  route,     \* the endpoint that received the request: "none", "single", "batch"
  pc,        \* position of the request handler
  items,     \* the BatchFeedbackItem list of the batch handler
  results,   \* the results list of the batch handler
  i,         \* loop variable of the chunk loop (0-based index of the chunk's first item)
  j,         \* chunkIndex reached by chunk.map
  task,      \* per item: position of its chunk callback inside analyzeSingleFeedback
  ret,       \* per item: the value its chunk callback resolved with
  cur,       \* the continuation that is running, or NoCur
  response,  \* the HTTP response, or NoResponse
  everOk,    \* history: some attempt of the item produced a result
  okValue,   \* history: the decoded reply of that attempt
  file,          \* batch page: the selected file, or "none"
  pageFeedbacks, \* batch page: the feedbacks state, the list Analyze All submits
  pageResult,    \* batch page: the result state, the analysis displayed, or NoResult
  reads,         \* batch page: the files whose text() handleFileChange is awaiting
  flight,        \* batch page: the batch request of analyzeMutation in flight, or NoFlight
  epoch          \* history: the number of file selections and Clear actions so far

serverVars == <<req, route, pc, items, results, i, j, task, ret, cur, response, everOk, okValue>>

pageVars == <<file, pageFeedbacks, pageResult, reads, flight, epoch>>

vars == <<req, route, pc, items, results, i, j, task, ret, cur, response, everOk, okValue,
          file, pageFeedbacks, pageResult, reads, flight, epoch>>

\* flight and pageResult carry, as history, the epoch in which the request was started
NoFlight == [epoch |-> 0 - 1]
NoResult == [epoch |-> 0 - 1]

\* useState(null), useState([]), useState(null); no read and no request pending
PageInit ==
  /\ file = "none"
  /\ pageFeedbacks = <<>>
  /\ pageResult = NoResult
  /\ reads = {}
  /\ flight = NoFlight
  /\ epoch = 0

NoCur == [stage |-> "none"]
NoResponse == [status |-> 0]
\* itemIndex is the index captured by the callback; attempt is the loop
\* variable of analyzeSingleFeedback while it runs
NoTask == [st |-> "none", attempt |-> 0, itemIndex |-> 0]
Settled == [st |-> "settled", attempt |-> 0, itemIndex |-> 0]

N == Len(items)

Min(a, b) == IF a < b THEN a ELSE b

\* positions (1-based) of the items of the chunk that starts at index start
ChunkPositions(start) == (start + 1)..Min(start + chunkSize, N)

ChunkLengthUncut(start) == N - start

\* chunk = items.slice(i, i + chunkSize); chunk.length
ChunkLength(start) == Min(start + chunkSize, N) - start

Init ==
  /\ req = <<>>
  /\ route = "none"
  /\ pc = "idle"
  /\ items = <<>>
  /\ results = <<>>
  /\ i = 0
  /\ j = 0
  /\ task = <<>>
  /\ ret = <<>>
  /\ cur = NoCur
  /\ response = NoResponse
  /\ everOk = <<>>
  /\ okValue = <<>>
  /\ PageInit

(* ------------------------------------------------------------------ *)
(* POST /api/analyze/batch                                             *)
(* ------------------------------------------------------------------ *)
ItemIdZeroBased(index) == <<"feedback-", index>>

\* `feedback-${index + 1}`
ItemId(index) == <<"feedback-", index + 1>>

\* feedbacks.map((feedback, index) => ({id, feedback, status: "pending"}))
MakeItems(feedbacks) ==
  [k \in 1..Len(feedbacks) |->
     [id |-> ItemId(k - 1), feedback |-> feedbacks[k], status |-> "pending",
      result |-> Undef, error |-> Undef]]

errorText == Str("Analysis failed after retries")

attachResultForgotten(its, itemIndex, value) == its

\* items[itemIndex].result = analysisResult
attachResult(its, itemIndex, value) == [its EXCEPT ![itemIndex + 1].result = value]

\* items[itemIndex].status = <status>
setStatus(its, itemIndex, status) == [its EXCEPT ![itemIndex + 1].status = status]

\* items[itemIndex].error = "Analysis failed after retries"
attachError(its, itemIndex) == [its EXCEPT ![itemIndex + 1].error = errorText]

ValidationFailure ==
  [status |-> 400, body |-> [error |-> "Invalid request", details |-> "issues"]]

\* the request arrives: safeParse, then the items are built and the loop is entered
SubmitBatch(feedbacks) ==
  /\ pc = "idle"
  /\ req' = feedbacks
  /\ route' = "batch"
  /\ IF ~batchAnalysisRequestValid(feedbacks)
       THEN /\ response' = ValidationFailure
            /\ pc' = "responded"
            /\ UNCHANGED <<items, results, i, j, task, ret, cur, everOk, okValue>>
       ELSE /\ items' = MakeItems(feedbacks)
            /\ results' = <<>>
            /\ i' = 0
            /\ j' = 0
            /\ pc' = "dispatch"
            /\ task' = [k \in 1..Len(feedbacks) |-> NoTask]
            /\ ret' = [k \in 1..Len(feedbacks) |-> Undef]
            /\ everOk' = [k \in 1..Len(feedbacks) |-> FALSE]
            /\ okValue' = [k \in 1..Len(feedbacks) |-> Undef]
            /\ UNCHANGED <<cur, response>>
  /\ UNCHANGED pageVars

ItemIndexChunkStart(start, chunkIndex) == start

ItemIndexIgnoringChunk(start, chunkIndex) == chunkIndex

\* const itemIndex = i + chunkIndex
ItemIndex(start, chunkIndex) == start + chunkIndex

\* chunk.map runs the callback of one item up to its first await:
\* status = "processing", then the first provider call is issued
Dispatch ==
  /\ pc = "dispatch"
  /\ j < ChunkLength(i)
  /\ LET itemIndex == ItemIndex(i, j) IN
       /\ items' = setStatus(items, itemIndex, "processing")
       /\ task' = [task EXCEPT ![i + j + 1] =
                     [st |-> "calling", attempt |-> 1, itemIndex |-> itemIndex]]
  /\ j' = j + 1
  /\ pc' = IF j + 1 < ChunkLength(i) THEN "dispatch" ELSE "await"
  /\ UNCHANGED <<req, route, results, i, ret, cur, response, everOk, okValue>>
  /\ UNCHANGED pageVars

(* ------------------------------------------------------------------ *)
(* analyzeSingleFeedback                                               *)
(* ------------------------------------------------------------------ *)
IsNull(x) == "t" \in DOMAIN x /\ x.t = "null"

\* the attempt ends in the empty-content branch or in the catch block:
\* the call threw, the content is empty, JSON.parse threw, or reading a
\* property of the decoded value threw
AttemptFails(o) ==
  \/ o.kind = "throw"
  \/ ContentIsEmpty(o)
  \/ ~JSONparse(o).ok
  \/ PropertyReadThrows(JSONparse(o).value)

\* one iteration of the attempt loop, given what the provider call did
analyzeAttempt(o, attempt) ==
  IF AttemptFails(o)
    THEN IF attempt < retries
           THEN [act |-> "retry", delay |-> 500 * attempt]
           ELSE [act |-> "return", value |-> JNull]
    ELSE [act |-> "return", value |-> normalize(JSONparse(o).value)]

\* the provider call of an item settles; its continuation is scheduled
ProviderReplies(k, o) ==
  /\ pc = "await"
  /\ cur = NoCur
  /\ task[k].st = "calling"
  /\ cur' = [stage |-> "reply", pos |-> k, outcome |-> o]
  /\ everOk' = [everOk EXCEPT ![k] = @ \/ ~AttemptFails(o)]
  /\ okValue' = [okValue EXCEPT ![k] = IF AttemptFails(o) THEN @ ELSE o.value]
  /\ UNCHANGED <<req, route, pc, items, results, i, j, task, ret, response>>
  /\ UNCHANGED pageVars

\* the continuation after the provider call: the rest of the attempt and,
\* when analyzeSingleFeedback returns, the first write of the callback
Resume ==
  /\ cur.stage = "reply"
  /\ LET k == cur.pos
         r == analyzeAttempt(cur.outcome, task[k].attempt)
         itemIndex == task[k].itemIndex
     IN CASE r.act = "retry" ->
               /\ task' = [task EXCEPT ![k].st = "backoff"]
               /\ cur' = NoCur
               /\ UNCHANGED items
          [] r.act = "return" /\ ~IsNull(r.value) ->
               /\ items' = attachResult(items, itemIndex, r.value)
               /\ cur' = [stage |-> "set_status", pos |-> k, value |-> r.value]
               /\ UNCHANGED task
          [] r.act = "return" /\ IsNull(r.value) ->
               /\ items' = setStatus(items, itemIndex, "error")
               /\ cur' = [stage |-> "set_error", pos |-> k]
               /\ UNCHANGED task
  /\ UNCHANGED <<req, route, pc, results, i, j, ret, response, everOk, okValue>>
  /\ UNCHANGED pageVars

\* items[itemIndex].status = "completed"; return analysisResult
FinishCompleted ==
  /\ cur.stage = "set_status"
  /\ items' = setStatus(items, task[cur.pos].itemIndex, "completed")
  /\ ret' = [ret EXCEPT ![cur.pos] = cur.value]
  /\ task' = [task EXCEPT ![cur.pos] = Settled]
  /\ cur' = NoCur
  /\ UNCHANGED <<req, route, pc, results, i, j, response, everOk, okValue>>
  /\ UNCHANGED pageVars

\* items[itemIndex].error = "Analysis failed after retries"; return null
FinishError ==
  /\ cur.stage = "set_error"
  /\ items' = attachError(items, task[cur.pos].itemIndex)
  /\ ret' = [ret EXCEPT ![cur.pos] = JNull]
  /\ task' = [task EXCEPT ![cur.pos] = Settled]
  /\ cur' = NoCur
  /\ UNCHANGED <<req, route, pc, results, i, j, response, everOk, okValue>>
  /\ UNCHANGED pageVars

\* await delay(500 * attempt) is over: continue with the next attempt
BackoffElapsed(k) ==
  /\ pc = "await"
  /\ cur = NoCur
  /\ task[k].st = "backoff"
  /\ task' = [task EXCEPT ![k].st = "calling", ![k].attempt = @ + 1]
  /\ UNCHANGED <<req, route, pc, items, results, i, j, ret, cur, response, everOk, okValue>>
  /\ UNCHANGED pageVars

(* ------------------------------------------------------------------ *)
(* The end of a chunk                                                  *)
(* ------------------------------------------------------------------ *)
SomeSettled(start) == \E k \in ChunkPositions(start) : task[k].st = "settled"

\* Promise.all(chunkPromises) resolves when every promise of the chunk has
AllSettled(start) == \A k \in ChunkPositions(start) : task[k].st = "settled"

NonNullKeepingAll(s) == s

\* chunkResults.filter((r) => r !== null), in chunk order
RECURSIVE NonNull(_)
NonNull(s) ==
  IF s = <<>> THEN <<>>
  ELSE (IF IsNull(s[1]) THEN <<>> ELSE <<s[1]>>) \o NonNull(Tail(s))

ChunkResultsReversed(start) ==
  [c \in 1..ChunkLength(start) |-> ret[start + ChunkLength(start) + 1 - c]]

\* const chunkResults = await Promise.all(chunkPromises): in chunk order
ChunkResults(start) == [c \in 1..ChunkLength(start) |-> ret[start + c]]

NextChunkStartOverlapping(start) == start + chunkSize - 1

\* i += chunkSize
NextChunkStart(start) == start + chunkSize

\* error.message of the TypeError generateBatchSummary raises on a list
\* field that is a string
summaryExceptionMessage == "r.emotions.forEach is not a function"

\* the catch block of the batch handler
BatchFailure ==
  [status |-> 500, body |-> [error |-> "Batch analysis failed",
                             message |-> summaryExceptionMessage]]

\* res.json({items, summary}), or the catch block when the summary threw
BatchResponse(its, rs) ==
  LET summary == generateBatchSummary(its, rs)
  IN IF summary.threw THEN BatchFailure
     ELSE [status |-> 200, body |-> [items |-> its, summary |-> summary.value]]

JoinWithoutPacing ==
  /\ pc = "await"
  /\ cur = NoCur
  /\ AllSettled(i)
  /\ NextChunkStart(i) < N
  /\ results' = results \o NonNull(ChunkResults(i))
  /\ i' = NextChunkStart(i)
  /\ j' = 0
  /\ pc' = "dispatch"
  /\ UNCHANGED <<req, route, items, task, ret, cur, response, everOk, okValue>>
  /\ UNCHANGED pageVars

\* Promise.all resolved and another chunk follows: results.push, await delay(300)
JoinAndPace ==
  /\ pc = "await"
  /\ cur = NoCur
  /\ AllSettled(i)
  /\ NextChunkStart(i) < N
  /\ results' = results \o NonNull(ChunkResults(i))
  /\ pc' = "pacing"
  /\ UNCHANGED <<req, route, items, i, j, task, ret, cur, response, everOk, okValue>>
  /\ UNCHANGED pageVars

\* the pacing delay is over: i += chunkSize and the next chunk is mapped
PacingElapsed ==
  /\ pc = "pacing"
  /\ i' = NextChunkStart(i)
  /\ j' = 0
  /\ pc' = "dispatch"
  /\ UNCHANGED <<req, route, items, results, task, ret, cur, response, everOk, okValue>>
  /\ UNCHANGED pageVars

\* Promise.all resolved for the last chunk: results.push, summary, response
JoinAndRespond ==
  /\ pc = "await"
  /\ cur = NoCur
  /\ AllSettled(i)
  /\ ~(NextChunkStart(i) < N)
  /\ results' = results \o NonNull(ChunkResults(i))
  /\ response' = BatchResponse(items, results')
  /\ pc' = "responded"
  /\ UNCHANGED <<req, route, items, i, j, task, ret, cur, everOk, okValue>>
  /\ UNCHANGED pageVars

(* ------------------------------------------------------------------ *)
(* POST /api/analyze                                                   *)
(* ------------------------------------------------------------------ *)
SingleTexts == {"fb1", "", "tooLong"}

\* the request arrives: safeParse, then the provider call is issued
SubmitSingle(text) ==
  /\ pc = "idle"
  /\ req' = <<text>>
  /\ route' = "single"
  /\ IF ~sentimentAnalysisRequestValid(text)
       THEN /\ response' = ValidationFailure
            /\ pc' = "responded"
       ELSE /\ pc' = "single_call"
            /\ UNCHANGED response
  /\ UNCHANGED <<items, results, i, j, task, ret, cur, everOk, okValue>>
  /\ UNCHANGED pageVars

\* error.message of the exception the handler catches: the message of the
\* provider client's error, of the SyntaxError of JSON.parse, or of the
\* TypeError of reading a property of null
exceptionMessage(o) ==
  IF o.kind = "throw"
    THEN (IF "code" \in DOMAIN o THEN "Request timed out." ELSE "Connection error.")
  ELSE IF ~JSONparse(o).ok THEN "Unexpected token g in JSON at position 0"
  ELSE "Cannot read properties of null (reading 'sentiment')"

\* error.message || "An unexpected error occurred."
caughtMessage(o) ==
  IF exceptionMessage(o) # "" THEN exceptionMessage(o) ELSE "An unexpected error occurred."

\* the response of the handler for what its provider call did
analyzeResponse(o) ==
  IF o.kind = "throw"
    THEN CASE o.status = 401 ->
                [status |-> 401, body |-> [error |-> "Invalid API key",
                                           message |-> "Check your OpenAI API key configuration."]]
           [] o.status = 429 ->
                [status |-> 429, body |-> [error |-> "Rate limit exceeded",
                                           message |-> "Please wait and try again."]]
           [] OTHER ->
                [status |-> 500, body |-> [error |-> "Analysis failed",
                                           message |-> caughtMessage(o)]]
  ELSE IF ContentIsEmpty(o)
    THEN [status |-> 500, body |-> [error |-> "Empty response from AI",
                                    message |-> "Please try again."]]
  ELSE IF ~JSONparse(o).ok \/ PropertyReadThrows(JSONparse(o).value)
    THEN [status |-> 500, body |-> [error |-> "Analysis failed",
                                    message |-> caughtMessage(o)]]
  ELSE [status |-> 200, body |-> normalize(JSONparse(o).value)]

\* the provider call of the handler settles; its continuation is scheduled
SingleReplies(o) ==
  /\ pc = "single_call"
  /\ cur = NoCur
  /\ cur' = [stage |-> "single_reply", outcome |-> o]
  /\ UNCHANGED <<req, route, pc, items, results, i, j, task, ret, response, everOk, okValue>>
  /\ UNCHANGED pageVars

\* the continuation after the provider call: the handler answers
SingleRespond ==
  /\ cur.stage = "single_reply"
  /\ response' = analyzeResponse(cur.outcome)
  /\ pc' = "responded"
  /\ cur' = NoCur
  /\ UNCHANGED <<req, route, items, results, i, j, task, ret, everOk, okValue>>
  /\ UNCHANGED pageVars

(* ------------------------------------------------------------------ *)
(* Specification                                                       *)
(* ------------------------------------------------------------------ *)
Next ==
  \/ \E feedbacks \in ValidBatches \cup InvalidBatches : SubmitBatch(feedbacks)
  \/ Dispatch
  \/ \E k \in 1..N : \E o \in BatchOutcomes : ProviderReplies(k, o)
  \/ Resume
  \/ FinishCompleted
  \/ FinishError
  \/ \E k \in 1..N : BackoffElapsed(k)
  \/ JoinAndPace
  \/ PacingElapsed
  \/ JoinAndRespond
  \/ \E text \in SingleTexts : SubmitSingle(text)
  \/ \E o \in SingleOutcomes : SingleReplies(o)
  \/ SingleRespond

Spec == Init /\ [][Next]_vars

(* ------------------------------------------------------------------ *)
(* The batch endpoint with its scheduling assumptions: continuations   *)
(* that are ready run, timers fire, and every provider call settles    *)
(* ------------------------------------------------------------------ *)
\* a failing outcome, a well-formed reply and a reply with a wrongly-typed
\* list: the other outcomes repeat one of these in what the attempt loop
\* and the summary do with them
LiveOutcomes == {ThrowOutcome(0), JsonContent(ReplyGood), JsonContent(ReplyBadList)}

ProviderSettles(k) == k \in 1..N /\ \E o \in LiveOutcomes : ProviderReplies(k, o)

BackoffFires(k) == k \in 1..N /\ BackoffElapsed(k)

NextLive ==
  \/ \E feedbacks \in ValidBatches : SubmitBatch(feedbacks)
  \/ Dispatch
  \/ \E k \in 1..MaxN : ProviderSettles(k)
  \/ Resume
  \/ FinishCompleted
  \/ FinishError
  \/ \E k \in 1..MaxN : BackoffFires(k)
  \/ JoinAndPace
  \/ PacingElapsed
  \/ JoinAndRespond

\* every step of a submitted request: the event loop runs a continuation
\* that is ready, a timer that was set fires, a provider call settles
Progress ==
  \/ Dispatch
  \/ \E k \in 1..MaxN : ProviderSettles(k)
  \/ Resume
  \/ FinishCompleted
  \/ FinishError
  \/ \E k \in 1..MaxN : BackoffFires(k)
  \/ JoinAndPace
  \/ PacingElapsed
  \/ JoinAndRespond

Fairness == WF_vars(Progress)

SpecLive == Init /\ [][NextLive]_vars /\ Fairness

(* ------------------------------------------------------------------ *)
(* generateBatchSummary on its own: the handler after its chunk loop,  *)
(* with the items and results a finished loop can have left            *)
(* ------------------------------------------------------------------ *)
MaxItems == 3

\* a result as analyzeSingleFeedback returns it
Result(sentiment, score, confidence, urgency, emotions, phrases, recs) ==
  [sentiment |-> Str(sentiment), sentimentScore |-> Num(score),
   confidence |-> Num(confidence), urgencyLevel |-> Str(urgency),
   customerIntent |-> Str(""), emotions |-> Lst(emotions), keyPhrases |-> Lst(phrases),
   insights |-> Lst(<<>>), recommendations |-> Lst(recs),
   summary |-> Str(""), detailedAnalysis |-> Str("")]

\* more names, phrases and titles than the summary keeps
ResultWide ==
  Result("negative", 40, 70, "critical",
         <<Emotion("anger", 90), Emotion("fear", 50), Emotion("sadness", 40),
           Emotion("disgust", 30), Emotion("surprise", 20), Emotion("trust", 10)>>,
         <<KeyPhrase("billing", "negative"), KeyPhrase("refund", "negative"),
           KeyPhrase("login", "negative"), KeyPhrase("delivery", "negative"),
           KeyPhrase("pricing", "negative"), KeyPhrase("quality", "negative"),
           KeyPhrase("support", "negative"), KeyPhrase("warranty", "negative"),
           KeyPhrase("packaging", "negative"), KeyPhrase("returns", "negative"),
           KeyPhrase("checkout", "negative")>>,
         <<Recommendation("refund faster", "w1"), Recommendation("fix login", "w2"),
           Recommendation("train staff", "w3"), Recommendation("cut prices", "w4"),
           Recommendation("improve packaging", "w5"),
           Recommendation("extend warranty", "w6")>>)

\* repeats the last entries of ResultWide
ResultNarrow ==
  Result("neutral", 50, 51, "medium",
         <<Emotion("trust", 60)>>,
         <<KeyPhrase("checkout", "neutral"), KeyPhrase("returns", "neutral")>>,
         <<Recommendation("Extend Warranty", "n1")>>)

\* names, phrases and titles that are decimal numbers
ResultDigits ==
  Result("positive", 60, 80, "high",
         <<Emotion("joy", 70), Emotion("7", 20)>>,
         <<KeyPhrase("slow shipping", "negative"), KeyPhrase("404", "negative")>>,
         <<Recommendation("keep it up", "d1"), Recommendation("404", "d2")>>)

\* the same name, phrase and title twice in one result
ResultTwice ==
  Result("negative", 10, 30, "high",
         <<Emotion("anger", 80), Emotion("anger", 60)>>,
         <<KeyPhrase("Slow Shipping", "negative"), KeyPhrase("slow shipping", "negative")>>,
         <<Recommendation("Speed Up Delivery", "t1"),
           Recommendation("speed up delivery", "t2")>>)

PoolResults ==
  {normalize(ReplyGood), normalize(ReplyOutOfRange),
   ResultWide, ResultNarrow, ResultDigits, ResultTwice}

\* what the chunk callbacks of a batch resolved with: a result or null
SummaryInputs == UNION {[1..n -> PoolResults \cup {JNull}] : n \in 1..MaxItems}

\* the item of position k once its callback has resolved with x
FinishedItem(k, text, x) ==
  IF IsNull(x)
    THEN [id |-> ItemId(k - 1), feedback |-> text, status |-> "error",
          result |-> Undef, error |-> errorText]
    ELSE [id |-> ItemId(k - 1), feedback |-> text, status |-> "completed",
          result |-> x, error |-> Undef]

InitSummary ==
  \E rets \in SummaryInputs :
    /\ req = Cycle(Len(rets))
    /\ route = "batch"
    /\ pc = "summary"
    /\ items = [k \in 1..Len(rets) |-> FinishedItem(k, Cycle(Len(rets))[k], rets[k])]
    /\ results = NonNull(rets)
    /\ i = 0
    /\ j = Len(rets)
    /\ task = [k \in 1..Len(rets) |-> Settled]
    /\ ret = rets
    /\ cur = NoCur
    /\ response = NoResponse
    /\ everOk = [k \in 1..Len(rets) |-> ~IsNull(rets[k])]
    /\ okValue = [k \in 1..Len(rets) |-> Undef]
    /\ PageInit

\* const summary = generateBatchSummary(items, results); res.json({items, summary})
Summarize ==
  /\ pc = "summary"
  /\ response' = BatchResponse(items, results)
  /\ pc' = "responded"
  /\ UNCHANGED <<req, route, items, results, i, j, task, ret, cur, everOk, okValue>>
  /\ UNCHANGED pageVars

NextSummary == Summarize

SpecSummary == InitSummary /\ [][NextSummary]_vars

(* ------------------------------------------------------------------ *)
(* The batch page of the client (BatchAnalysis in batch.tsx)           *)
(* ------------------------------------------------------------------ *)
MaxActions == 4

\* parsed.slice(0, 100) when parsed.length > 100
pageLimit == 100

Files == {"two.txt", "full.csv", "many.csv", "empty.txt", "broken.json"}

\* the number of feedback strings the extraction finds in a file
ExtractCount(f) ==
  CASE f = "two.txt" -> 2
    [] f = "full.csv" -> pageLimit
    [] f = "many.csv" -> pageLimit + 2
    [] OTHER -> 0

\* JSON.parse(text) throws
ParseThrows(f) == f = "broken.json"

\* the list the extraction produces: entry k of file f, in extraction order
Extracted(f) == [k \in 1..ExtractCount(f) |-> <<f, k>>]

keepAll(parsed) == parsed

\* if (parsed.length > 100) parsed = parsed.slice(0, 100)
truncate(parsed) == IF Len(parsed) > pageLimit THEN SubSeq(parsed, 1, pageLimit) ELSE parsed

\* the label that opens the file dialog is rendered only while no file is
\* selected; handleFileChange up to its await: setFile, setResult(null)
SelectFile(f) ==
  /\ file = "none"
  /\ epoch < MaxActions
  /\ file' = f
  /\ pageResult' = NoResult
  /\ reads' = reads \cup {f}
  /\ epoch' = epoch + 1
  /\ UNCHANGED <<pageFeedbacks, flight>>
  /\ UNCHANGED serverVars

\* handleFileChange after await selectedFile.text(): parse, then return on
\* an empty list or a parse error, else truncate and setFeedbacks
FileRead(f) ==
  /\ f \in reads
  /\ reads' = reads \ {f}
  /\ pageFeedbacks' =
       IF ParseThrows(f) \/ Len(Extracted(f)) = 0 THEN pageFeedbacks
       ELSE truncate(Extracted(f))
  /\ UNCHANGED <<file, pageResult, flight, epoch>>
  /\ UNCHANGED serverVars

\* the Analyze All button is rendered while a file is selected and enabled
\* unless the mutation is pending or the list is empty; handleAnalyze
Analyze ==
  /\ file # "none"
  /\ flight = NoFlight
  /\ Len(pageFeedbacks) # 0
  /\ flight' = [epoch |-> epoch, list |-> pageFeedbacks, sentFor |-> file]
  /\ UNCHANGED <<file, pageFeedbacks, pageResult, reads, epoch>>
  /\ UNCHANGED serverVars

\* the response body of POST /api/analyze/batch for a list
BatchResultFor(f) == [epoch |-> f.epoch, ofList |-> f.list, sentFor |-> f.sentFor]

\* onSuccess: setResult(data)
RequestSucceeds ==
  /\ flight # NoFlight
  /\ pageResult' = BatchResultFor(flight)
  /\ flight' = NoFlight
  /\ UNCHANGED <<file, pageFeedbacks, reads, epoch>>
  /\ UNCHANGED serverVars

\* onError: a toast, the state is kept
RequestFails ==
  /\ flight # NoFlight
  /\ flight' = NoFlight
  /\ UNCHANGED <<file, pageFeedbacks, pageResult, reads, epoch>>
  /\ UNCHANGED serverVars

\* the Clear buttons are rendered while a file is selected; handleClear
Clear ==
  /\ file # "none"
  /\ epoch < MaxActions
  /\ file' = "none"
  /\ pageFeedbacks' = <<>>
  /\ pageResult' = NoResult
  /\ epoch' = epoch + 1
  /\ UNCHANGED <<reads, flight>>
  /\ UNCHANGED serverVars

NextPage ==
  \/ \E f \in Files : SelectFile(f)
  \/ \E f \in Files : FileRead(f)
  \/ Analyze
  \/ RequestSucceeds
  \/ RequestFails
  \/ Clear

SpecPage == Init /\ [][NextPage]_vars

(* ------------------------------------------------------------------ *)
(* Properties                                                          *)
(* ------------------------------------------------------------------ *)
BatchReturned == route = "batch" /\ response.status = 200

BatchFinished == route = "batch" /\ pc = "responded" /\ batchAnalysisRequestValid(req)

Terminal == {"completed", "error"}

\* C1: the items list returned by the batch endpoint has one item per
\* submitted feedback string, item k carrying the k-th input string and
\* the id "feedback-k" (k counted from 1), under every interleaving of
\* completions and failures.
C1_ItemsKeepInputOrder ==
  BatchReturned =>
    /\ Len(response.body.items) = Len(req)
    /\ \A k \in 1..Len(req) :
         /\ response.body.items[k].feedback = req[k]
         /\ response.body.items[k].id = <<"feedback-", k>>

C1_Witness ==
  /\ BatchReturned
  /\ Len(req) > chunkSize
  /\ response.body.items[1].status = "error"
  /\ response.body.items[2].status = "completed"
  /\ response.body.items[Len(req)].status = "completed"

\* the first indices (0-based) of the chunks that have a successor chunk
ChunksWithSuccessor == {c \in 0..N : c % chunkSize = 0 /\ c + chunkSize < N}

\* C2: chunk barrier: whenever an item of chunk k+1 has left status
\* pending, every item of chunk k is in a terminal status.
C2_ChunkBarrier ==
  \A c \in ChunksWithSuccessor :
    (\E p \in (c + chunkSize + 1)..Min(c + 2 * chunkSize, N) : items[p].status # "pending")
      => \A q \in (c + 1)..(c + chunkSize) : items[q].status \in Terminal

C2_Witness ==
  /\ N > chunkSize
  /\ items[chunkSize + 1].status = "processing"
  /\ items[chunkSize].status = "error"

StatusSteps ==
  {<<"pending", "processing">>, <<"processing", "completed">>, <<"processing", "error">>}

\* C3: every item is created pending, and every change of an item's
\* status is pending -> processing, processing -> completed or
\* processing -> error; so a terminal item never changes again and no
\* item enters processing twice.
C3_StatusLifecycle ==
  [][/\ (items = <<>> /\ items' # <<>>) =>
          \A k \in 1..Len(items') : items'[k].status = "pending"
     /\ (items # <<>>) =>
          /\ Len(items') = Len(items)
          /\ \A k \in 1..Len(items) :
               \/ items'[k].status = items[k].status
               \/ <<items[k].status, items'[k].status>> \in StatusSteps]_vars

C3_Witness ==
  /\ N >= 3
  /\ items[1].status = "completed"
  /\ items[2].status = "error"
  /\ items[3].status = "processing"
  /\ task[3].attempt = retries

ItemConsistent(it) ==
  /\ it.status = "completed" => (it.result # Undef /\ it.error = Undef)
  /\ it.status = "error" => (it.error = errorText /\ it.result = Undef)
  /\ it.status \in {"pending", "processing"} => (it.result = Undef /\ it.error = Undef)

\* C4 as stated: in every reachable state, also between the two field
\* writes made when an item finishes, completed items have a result and no
\* error, error items have the fixed error text and no result, and
\* pending and processing items have neither.
C4_ConsistentInEveryState == \A k \in 1..N : ItemConsistent(items[k])

BetweenWrites == cur.stage \in {"set_status", "set_error"}

\* C4 as amended: the same holds for every item in every state in which
\* no callback is between its two writes; between the two writes the item
\* being finished is the one exception: it is processing with its result
\* attached, or in error with its error text not yet set.
C4_ConsistentOutsideWrites ==
  \A k \in 1..N :
    IF BetweenWrites /\ task[cur.pos].itemIndex + 1 = k
      THEN /\ items[k].error = Undef
           /\ cur.stage = "set_status" => (items[k].status = "processing" /\ items[k].result = cur.value)
           /\ cur.stage = "set_error" => (items[k].status = "error" /\ items[k].result = Undef)
      ELSE ItemConsistent(items[k])

C4_Witness ==
  /\ ~BetweenWrites
  /\ pc = "await"
  /\ N >= 2
  /\ items[1].status = "error"
  /\ items[2].status = "completed"

\* C5: whatever the provider calls of the items of a schema-valid batch
\* do, the batch endpoint answers 200 with a body {items, summary} and
\* every item has been processed to a terminal status.
C5_ItemOutcomesNeverFailTheBatch ==
  BatchFinished =>
    /\ response.status = 200
    /\ DOMAIN response.body = {"items", "summary"}
    /\ \A k \in 1..N : items[k].status \in Terminal

\* C6: in the returned list an item has status error exactly when every
\* one of its provider attempts failed and status completed otherwise, and
\* a completed item carries the normalized reply of its own successful
\* attempt, whatever happened to the other items.
C6_FailuresAreIsolated ==
  BatchReturned =>
    \A k \in 1..Len(req) :
      LET it == response.body.items[k] IN
        /\ it.status = "error" <=> ~everOk[k]
        /\ it.status = "completed" <=> everOk[k]
        /\ everOk[k] => it.result = normalize(okValue[k])

C6_Witness ==
  /\ BatchReturned
  /\ Len(req) = chunkSize + 1
  /\ \A k \in 1..Len(req) :
       response.body.items[k].status = (IF k \in {3, 6} THEN "error" ELSE "completed")

ErrorCount == Cardinality({k \in 1..N : items[k].status = "error"})

\* C7: summary.totalCount equals the number of submitted feedback strings,
\* whatever number of items ended in status error.
C7_TotalCountIsInputLength == BatchReturned => response.body.summary.totalCount = Len(req)

C7_Witness ==
  /\ BatchReturned
  /\ Len(req) >= 3
  /\ ErrorCount >= 1
  /\ ErrorCount < Len(req)

\* C8: when every item of a batch exhausts its retries, the response is a
\* 200 with every item in status error, totalCount = N, the three
\* sentiment counts and both averages 0, and topEmotions, commonThemes and
\* overallRecommendations empty.
C8_AllItemsFailed ==
  (BatchFinished /\ \A k \in 1..N : ~everOk[k]) =>
    /\ response.status = 200
    /\ \A k \in 1..N : response.body.items[k].status = "error"
    /\ LET sm == response.body.summary IN
         /\ sm.totalCount = N
         /\ sm.positiveCount = 0 /\ sm.negativeCount = 0 /\ sm.neutralCount = 0
         /\ sm.averageSentimentScore = 0 /\ sm.averageConfidence = 0
         /\ sm.topEmotions = <<>> /\ sm.commonThemes = <<>>
         /\ sm.overallRecommendations = <<>>

C8_Witness ==
  /\ BatchReturned
  /\ Len(req) > chunkSize
  /\ \A k \in 1..Len(req) : ~everOk[k] /\ response.body.items[k].status = "error"

\* the content of the reply is not empty and decodes as JSON
Decodable(o) == o.kind = "content" /\ o.text = "json"

\* C9: analyzeSingleFeedback makes between 1 and `retries` provider calls:
\* a reply with decodable non-empty content makes it return the normalized
\* reply at once; an empty reply, an undecodable reply and a thrown error
\* are retried after a delay while attempts remain, and make it return
\* null at the last attempt; it never throws.
C9_RetryWrapper ==
  [][/\ \A k \in 1..Len(task) :
          task[k].st \in {"calling", "backoff"} => task[k].attempt \in 1..retries
     /\ cur.stage = "reply" =>
          IF Decodable(cur.outcome)
            THEN /\ cur'.stage = "set_status"
                 /\ cur'.value = normalize(cur.outcome.value)
            ELSE IF task[cur.pos].attempt < retries
              THEN cur' = NoCur /\ task'[cur.pos].st = "backoff"
              ELSE cur'.stage = "set_error"]_vars

InRange(r) ==
  /\ r.sentimentScore.t = "num" /\ r.sentimentScore.v \in 0..100
  /\ r.confidence.t = "num" /\ r.confidence.v \in 0..100
  /\ r.sentiment \in {Str("positive"), Str("negative"), Str("neutral")}
  /\ r.urgencyLevel \in {Str("critical"), Str("high"), Str("medium"), Str("low")}

\* C10: every normalized result, of analyzeSingleFeedback and of the
\* single-item endpoint, has sentimentScore and confidence in 0..100,
\* sentiment in {positive, negative, neutral} and urgencyLevel in
\* {critical, high, medium, low}.
C10_NormalizedInRange ==
  /\ \A k \in 1..N : items[k].result # Undef => InRange(items[k].result)
  /\ (route = "single" /\ response.status = 200) => InRange(response.body)

ResultFields ==
  {"sentiment", "sentimentScore", "confidence", "urgencyLevel", "customerIntent",
   "emotions", "keyPhrases", "insights", "recommendations", "summary",
   "detailedAnalysis"}

\* the value of a field of a reply is one the result type admits
FieldValid(name, x) ==
  CASE name = "sentiment" -> x \in {Str("positive"), Str("negative"), Str("neutral")}
    [] name = "urgencyLevel" -> x \in {Str("critical"), Str("high"), Str("medium"), Str("low")}
    [] name \in {"sentimentScore", "confidence"} -> x.t = "num" /\ x.v \in 0..100
    [] name \in {"emotions", "keyPhrases", "insights", "recommendations"} -> x.t = "list"
    [] OTHER -> x.t = "str"

FieldDefault(name) ==
  CASE name = "sentiment" -> Str("neutral")
    [] name = "urgencyLevel" -> Str("medium")
    [] name = "sentimentScore" -> Num(50)
    [] name = "confidence" -> Num(0)
    [] name \in {"emotions", "keyPhrases", "insights", "recommendations"} -> Lst(<<>>)
    [] OTHER -> Str("")

FieldwiseNormalized(value, r) ==
  \A name \in ResultFields :
    r[name] = IF FieldValid(name, Get(value, name)) THEN Get(value, name)
              ELSE FieldDefault(name)

\* C11: for every reply that decodes as JSON the call does not fail and
\* each field of the result is the reply's field when that is valid and
\* the field's default when it is missing or invalid (a list field that is
\* not a list becomes the empty list; a decoded null gives all defaults);
\* for analyzeSingleFeedback and for POST /api/analyze.
C11_FieldwiseNormalization ==
  [][/\ (cur.stage = "reply" /\ Decodable(cur.outcome)) =>
          /\ cur'.stage = "set_status"
          /\ FieldwiseNormalized(cur.outcome.value, cur'.value)
     /\ (cur.stage = "single_reply" /\ Decodable(cur.outcome)) =>
          /\ response'.status = 200
          /\ FieldwiseNormalized(cur.outcome.value, response'.body)]_vars

\* the status POST /api/analyze is to answer with for an outcome of its call
ExpectedStatus(o) ==
  IF Decodable(o) THEN 200
  ELSE IF o = TimeoutOutcome THEN 503
  ELSE IF o.kind = "throw" /\ o.status \in {401, 429} THEN o.status
  ELSE 500

\* C12: POST /api/analyze answers a decodable reply with 200 and all
\* eleven result fields, invalid credentials with 401, rate limiting with
\* 429, a timeout with 503, and an empty reply, an undecodable reply or
\* any other error with 500.
C12_SingleStatusMapping ==
  [][cur.stage = "single_reply" =>
       /\ response'.status = ExpectedStatus(cur.outcome)
       /\ response'.status = 200 => DOMAIN response'.body = ResultFields]_vars

\* a feedback string outside 1..5000 characters
TextViolatesSchema(text) == Length(text) < 1 \/ Length(text) > MaxFeedbackLen

\* a feedbacks list outside 1..100 entries or with such a string
BatchViolatesSchema(feedbacks) ==
  \/ Len(feedbacks) < 1
  \/ Len(feedbacks) > MaxFeedbacks
  \/ \E k \in 1..Len(feedbacks) : TextViolatesSchema(feedbacks[k])

Rejected ==
  /\ pc = "responded"
  /\ response.status = 400
  /\ "details" \in DOMAIN response.body
  /\ cur = NoCur

\* C13: a request body that violates the schema (single: feedback outside
\* 1..5000 characters; batch: the empty list, more than 100 strings, or a
\* string outside 1..5000 characters) is answered with 400 and validation
\* details, no provider call is made and no item is created or processed.
C13_InvalidRequestsRejected ==
  /\ (route = "batch" /\ BatchViolatesSchema(req)) =>
       (Rejected /\ items = <<>> /\ task = <<>> /\ results = <<>>)
  /\ (route = "single" /\ TextViolatesSchema(req[1])) => Rejected

C13_Witness ==
  /\ route = "batch"
  /\ req = <<"fb1", "">>
  /\ Rejected

\* C14: when continuations run, timers fire and every provider call
\* settles, a submitted valid batch leads to a response that carries the
\* items, every one of them completed or error.
C14_BatchRunsToCompletion ==
  (route = "batch" /\ batchAnalysisRequestValid(req))
    ~> (/\ pc = "responded"
        /\ response.status = 200
        /\ Len(response.body.items) = Len(req)
        /\ \A k \in 1..Len(req) : response.body.items[k].status \in Terminal)

\* the results of the items in status completed, in input order
IsCompleted(item) == item.status = "completed"
CompletedResults(its) ==
  LET done == SelectSeq(its, IsCompleted) IN [k \in 1..Len(done) |-> done[k].result]

\* number of occurrences of key in a sequence of keys, and the position of the first
Occurrences(keys, key) == Cardinality({q \in 1..Len(keys) : keys[q] = key})
FirstSeen(keys, key) == CHOOSE p \in 1..Len(keys) : keys[p] = key /\ \A q \in 1..(p - 1) : keys[q] # key

\* list reports keys of the scan, at most cap of them and none twice, by
\* non-increasing occurrence count with earlier-seen keys first among equal
\* counts, and every key left out that occurs at least least times was cut
\* by the cap and occurs no more often than any key kept
RankedByCount(list, keys, cap, least) ==
  /\ Len(list) <= cap
  /\ \A p \in 1..Len(list) : \E q \in 1..Len(keys) : keys[q] = list[p]
  /\ \A p, q \in 1..Len(list) :
       p < q =>
         /\ list[p] # list[q]
         /\ Occurrences(keys, list[p]) >= Occurrences(keys, list[q])
         /\ Occurrences(keys, list[p]) = Occurrences(keys, list[q]) =>
              FirstSeen(keys, list[p]) < FirstSeen(keys, list[q])
  /\ \A q \in 1..Len(keys) :
       (Occurrences(keys, keys[q]) >= least /\ \A p \in 1..Len(list) : list[p] # keys[q]) =>
         /\ Len(list) = cap
         /\ \A p \in 1..Len(list) : Occurrences(keys, keys[q]) <= Occurrences(keys, list[p])

\* the emotion names, the phrases in lower case and the recommendations with
\* their titles in lower case, of the completed items in input order
EmotionNames(its) ==
  LET es == Scan(CompletedResults(its), "emotions") IN [p \in 1..Len(es) |-> es[p].name.v]
PhrasesLowered(its) ==
  LET kps == Scan(CompletedResults(its), "keyPhrases")
  IN [p \in 1..Len(kps) |-> toLowerCase(kps[p].phrase.v)]
AllRecommendations(its) == Scan(CompletedResults(its), "recommendations")
TitlesLowered(its) ==
  [p \in 1..Len(AllRecommendations(its)) |-> toLowerCase(AllRecommendations(its)[p].title.v)]

\* C15: in every batch summary topEmotions has at most 5 entries,
\* commonThemes at most 10 and overallRecommendations at most 5; each list
\* is in non-increasing order of occurrence count, what was cut off occurs
\* no more often than what was kept, and among equal counts the entry first
\* encountered in the completed results, in input order, comes first.
C15_CappedAndRanked ==
  BatchReturned =>
    LET sm == response.body.summary
        its == response.body.items
    IN /\ RankedByCount([p \in 1..Len(sm.topEmotions) |-> sm.topEmotions[p].name],
                        EmotionNames(its), topEmotionsCap, 1)
       /\ \A p \in 1..Len(sm.topEmotions) :
            sm.topEmotions[p].count = Occurrences(EmotionNames(its), sm.topEmotions[p].name)
       /\ RankedByCount(sm.commonThemes, PhrasesLowered(its), commonThemesCap, 2)
       /\ RankedByCount([p \in 1..Len(sm.overallRecommendations) |->
                           toLowerCase(sm.overallRecommendations[p].title.v)],
                        TitlesLowered(its), recommendationsCap, 1)

\* the positions of the items in status completed
CompletedPositions(its) == {k \in 1..Len(its) : its[k].status = "completed"}

\* the sum of a numeric result field over the completed items among the first n
RECURSIVE TotalOfCompleted(_, _, _)
TotalOfCompleted(its, field, n) ==
  IF n = 0 THEN 0
  ELSE TotalOfCompleted(its, field, n - 1)
         + (IF its[n].status = "completed" THEN its[n].result[field].v ELSE 0)

\* a is total / count rounded to the nearest integer, halves upwards
\* (a - 1/2 <= total / count < a + 1/2), or 0 when count is 0
IsRoundedMean(a, total, count) ==
  IF count = 0 THEN a = 0
  ELSE 2 * count * a - count <= 2 * total /\ 2 * total < 2 * count * a + count

AllInRange(its, field) ==
  \A k \in CompletedPositions(its) :
    its[k].result[field].v >= 0 /\ its[k].result[field].v <= 100

\* C17: averageSentimentScore and averageConfidence are the mean of the
\* field over the completed items only, rounded to the nearest integer with
\* halves upwards, and 0 when no item completed; when every value is in
\* 0..100 so is the average.
C17_AveragesOverCompleted ==
  BatchReturned =>
    LET sm == response.body.summary
        its == response.body.items
        count == Cardinality(CompletedPositions(its))
    IN /\ IsRoundedMean(sm.averageSentimentScore,
                        TotalOfCompleted(its, "sentimentScore", Len(its)), count)
       /\ IsRoundedMean(sm.averageConfidence,
                        TotalOfCompleted(its, "confidence", Len(its)), count)
       /\ AllInRange(its, "sentimentScore") =>
            sm.averageSentimentScore >= 0 /\ sm.averageSentimentScore <= 100
       /\ AllInRange(its, "confidence") =>
            sm.averageConfidence >= 0 /\ sm.averageConfidence <= 100

\* a failed item among three, and a mean that ends in one half
C17_Witness ==
  /\ BatchReturned
  /\ Len(items) = 3
  /\ Cardinality(CompletedPositions(items)) = 2
  /\ TotalOfCompleted(items, "sentimentScore", 3) = 135
  /\ response.body.summary.averageSentimentScore = 68

\* the number of completed items whose result has value val in field
CompletedWith(its, field, val) ==
  Cardinality({k \in CompletedPositions(its) : its[k].result[field] = Str(val)})

\* C18: positiveCount, negativeCount and neutralCount are the numbers of
\* completed items with that sentiment, the four urgencyBreakdown counts the
\* numbers of completed items with that urgencyLevel; an item in status
\* error is counted nowhere.
C18_CountsOverCompleted ==
  BatchReturned =>
    LET sm == response.body.summary
        its == response.body.items
    IN /\ sm.positiveCount = CompletedWith(its, "sentiment", "positive")
       /\ sm.negativeCount = CompletedWith(its, "sentiment", "negative")
       /\ sm.neutralCount = CompletedWith(its, "sentiment", "neutral")
       /\ sm.urgencyBreakdown.critical = CompletedWith(its, "urgencyLevel", "critical")
       /\ sm.urgencyBreakdown.high = CompletedWith(its, "urgencyLevel", "high")
       /\ sm.urgencyBreakdown.medium = CompletedWith(its, "urgencyLevel", "medium")
       /\ sm.urgencyBreakdown.low = CompletedWith(its, "urgencyLevel", "low")
       /\ sm.positiveCount + sm.negativeCount + sm.neutralCount
            <= Cardinality(CompletedPositions(its))
       /\ sm.urgencyBreakdown.critical + sm.urgencyBreakdown.high
            + sm.urgencyBreakdown.medium + sm.urgencyBreakdown.low
            <= Cardinality(CompletedPositions(its))

\* a failed item next to a positive and a negative one
C18_Witness ==
  /\ BatchReturned
  /\ ErrorCount = 1
  /\ response.body.summary.positiveCount = 1
  /\ response.body.summary.negativeCount = 1
  /\ response.body.summary.urgencyBreakdown.high = 2

\* the completed items that have the phrase among their keyPhrases, compared in lower case
ItemsWithPhrase(its, phrase) ==
  {k \in CompletedPositions(its) :
     \E q \in 1..Len(its[k].result.keyPhrases.v) :
       toLowerCase(its[k].result.keyPhrases.v[q].phrase.v) = phrase}

\* C19: every common theme occurs, compared case-insensitively, among the
\* keyPhrases of at least 2 distinct completed items (twice in one item is
\* not enough), is reported in lower case, and is listed once.
C19_ThemesFromTwoItems ==
  BatchReturned =>
    LET themes == response.body.summary.commonThemes
        its == response.body.items
    IN /\ \A p \in 1..Len(themes) :
            /\ Cardinality(ItemsWithPhrase(its, themes[p])) >= 2
            /\ toLowerCase(themes[p]) = themes[p]
       /\ \A p, q \in 1..Len(themes) : p # q => themes[p] # themes[q]

OutcomeOf(k) == IF everOk[k] THEN normalize(okValue[k]) ELSE JNull

\* the response as a function of the request and of the per-item outcomes alone
ResponseFor(feedbacks) ==
  LET outcomes == [k \in 1..Len(feedbacks) |-> OutcomeOf(k)]
      its == [k \in 1..Len(feedbacks) |-> FinishedItem(k, feedbacks[k], outcomes[k])]
  IN BatchResponse(its, NonNull(outcomes))

\* C21: the whole batch response (items with status, result and error, and
\* every field of the summary with the order of its lists) is determined by
\* the request and the per-item provider outcomes, so it is the same under
\* every order in which the calls of a chunk complete.
C21_ResponseIndependentOfCompletionOrder ==
  BatchFinished => response = ResponseFor(req)

\* the second item of a chunk has completed while the first one is still
\* waiting to retry
C21_Witness ==
  /\ route = "batch"
  /\ pc = "await"
  /\ N >= 2
  /\ items[2].status = "completed"
  /\ items[1].status = "processing"
  /\ task[1].st = "backoff"

\* the task (by its position in the input) that takes the step, if one does:
\* the callback being started by chunk.map, or the continuation that runs
RunningTask ==
  IF pc = "dispatch" THEN i + j + 1
  ELSE IF cur.stage \in {"reply", "set_status", "set_error"} THEN cur.pos
  ELSE 0

\* C22: once the items exist, every step that changes the items list is a
\* step of one task and changes only the status, result or error of the
\* item at that task's own position; every other item, and every id and
\* feedback, stays as it was. So no slot is written by two tasks.
C22_TasksWriteOwnSlotOnly ==
  [][(items # <<>> /\ items' # items) =>
       /\ RunningTask \in 1..N
       /\ Len(items') = Len(items)
       /\ \A p \in 1..N :
            /\ p # RunningTask => items'[p] = items[p]
            /\ items'[p].id = items[p].id
            /\ items'[p].feedback = items[p].feedback]_vars

\* a task is between its two writes while its two neighbours in the chunk
\* are one finished and one in flight
C22_Witness ==
  /\ N >= 3
  /\ cur.stage = "set_status"
  /\ cur.pos = 2
  /\ items[2].result # Undef
  /\ items[1].status = "error"
  /\ items[3].status = "processing"

Processing == {k \in 1..N : items[k].status = "processing"}

\* the number (from 0) of the chunk that position k belongs to
ChunkOf(k) == (k - 1) \div chunkSize

\* C23: the chunks are the consecutive runs of 5 positions (the last one
\* shorter when N is not a multiple of 5): the loop variable is a multiple
\* of 5 below N, the items before the current chunk are terminal and the
\* items after it pending; no item of a chunk finishes while an item of the
\* same chunk is still pending; and at most 5 items are processing, all of
\* them in one chunk.
C23_ChunksOfFive ==
  (route = "batch" /\ N > 0) =>
    /\ i % chunkSize = 0 /\ i < N
    /\ \A k \in 1..N :
         /\ ChunkOf(k) < ChunkOf(i + 1) => items[k].status \in Terminal
         /\ ChunkOf(k) > ChunkOf(i + 1) => items[k].status = "pending"
    /\ \A p, q \in 1..N :
         (ChunkOf(p) = ChunkOf(q) /\ (items[p].status \in Terminal \/ items[p].result # Undef))
           => items[q].status # "pending"
    /\ Cardinality(Processing) <= chunkSize
    /\ \A p, q \in Processing : ChunkOf(p) = ChunkOf(q)

\* a full chunk in flight with an item left for the next chunk
C23_Witness ==
  /\ N > chunkSize
  /\ Cardinality(Processing) = chunkSize
  /\ items[N].status = "pending"

\* ceil(n / chunkSize)
ChunkCount(n) == (n + chunkSize - 1) \div chunkSize

\* C24: the loop variable advances only at the end of a pacing delay, by
\* one chunk each time; a pacing delay begins only when every item of the
\* current chunk is terminal, another chunk follows and none of its items
\* has been started; and the handler answers straight after the join of
\* the last chunk, having advanced ceil(N/5) - 1 times: one pacing delay
\* between consecutive chunks and none after the last.
C24_OnePacingDelayBetweenChunks ==
  [][route = "batch" =>
       /\ i' # i => (pc = "pacing" /\ pc' = "dispatch" /\ i' = i + chunkSize /\ i' < N)
       /\ (pc # "pacing" /\ pc' = "pacing") =>
            /\ pc = "await"
            /\ i + chunkSize < N
            /\ \A k \in 1..N :
                 /\ ChunkOf(k) = ChunkOf(i + 1) => items[k].status \in Terminal
                 /\ ChunkOf(k) > ChunkOf(i + 1) => items[k].status = "pending"
       /\ (pc = "pacing" /\ pc' # "pacing") => i' # i
       /\ (pc # "responded" /\ pc' = "responded" /\ N > 0) =>
            /\ pc = "await"
            /\ i' = chunkSize * (ChunkCount(N) - 1)]_vars

\* a batch of more than one chunk has been answered after one pacing delay
C24_Witness ==
  /\ BatchFinished
  /\ N > chunkSize
  /\ i = chunkSize * (ChunkCount(N) - 1)
  /\ i > 0

\* texts that are the message of a caught exception
ExceptionMessages ==
  {exceptionMessage(o) : o \in {x \in SingleOutcomes : AttemptFails(x) /\ ~ContentIsEmpty(x)}}
    \cup {summaryExceptionMessage}

\* C25: every response with a status other than 200, of either endpoint,
\* has an error field and a message field, and carries neither the message
\* of the caught exception nor the list of validation issues.
C25_ErrorResponsesHideInternals ==
  (response # NoResponse /\ response.status # 200) =>
    /\ {"error", "message"} \subseteq DOMAIN response.body
    /\ "details" \notin DOMAIN response.body
    /\ response.body.message \notin ExceptionMessages

\* C26: the list held for submission never has more than 100 entries; when
\* a file whose extraction produced more than 100 entries has been
\* processed, the list is exactly the first 100 of them in extraction
\* order; and a list sent to POST /api/analyze/batch has between 1 and 100
\* entries.
C26_AtMostHundredHeld ==
  [][/\ Len(pageFeedbacks') <= 100
     /\ \A f \in Files :
          (f \in reads /\ f \notin reads' /\ Len(Extracted(f)) > 100) =>
            /\ Len(pageFeedbacks') = 100
            /\ \A k \in 1..100 : pageFeedbacks'[k] = Extracted(f)[k]
     /\ flight' # NoFlight =>
          /\ Len(flight'.list) >= 1
          /\ Len(flight'.list) <= MaxFeedbacks]_vars

\* the first 100 of 102 extracted entries are held and have been sent
C26_Witness ==
  /\ Len(Extracted("many.csv")) > 100
  /\ Len(pageFeedbacks) = 100
  /\ pageFeedbacks[100] = <<"many.csv", 100>>
  /\ flight # NoFlight
  /\ flight.list = pageFeedbacks

\* C27: the results list the summary is computed from is the sequence of
\* the results of the items that ended completed, in input order: as many
\* entries as completed items, none of them null, none from a failed item
\* and none twice.
C27_ResultsAreTheCompletedItems ==
  BatchFinished =>
    /\ Len(results) = Cardinality(CompletedPositions(items))
    /\ \A r \in 1..Len(results) : ~IsNull(results[r])
    /\ \A r \in 1..Len(results) :
         LET k == NthOf(CompletedPositions(items), r) IN results[r] = items[k].result

\* two chunks, with the first and the last item failed
C27_Witness ==
  /\ BatchFinished
  /\ N > chunkSize
  /\ items[1].status = "error"
  /\ items[N].status = "error"
  /\ Len(results) = N - 2

\* C28: in every batch response the three sentiment counts add up to the
\* number of items in status completed, and so do the four urgency counts,
\* so that totalCount minus the sentiment counts is the number of items in
\* status error; also for replies whose sentiment or urgencyLevel is a
\* non-empty string outside the enums.
C28_CountsAddUpToCompleted ==
  BatchReturned =>
    LET sm == response.body.summary
        its == response.body.items
        completed == Cardinality(CompletedPositions(its))
        failed == Cardinality({k \in 1..Len(its) : its[k].status = "error"})
    IN /\ sm.positiveCount + sm.negativeCount + sm.neutralCount = completed
       /\ sm.urgencyBreakdown.critical + sm.urgencyBreakdown.high
            + sm.urgencyBreakdown.medium + sm.urgencyBreakdown.low = completed
       /\ sm.totalCount - (sm.positiveCount + sm.negativeCount + sm.neutralCount) = failed

\* C29: while a file is selected and no file is being read, every entry of the list that Analyze All
\* would submit was extracted from that file; in particular a file that
\* yields no feedback or fails to parse leaves no list of an earlier file
\* to submit.
C29_ListIsOfSelectedFile ==
  (file # "none" /\ reads = {}) =>
    \A k \in 1..Len(pageFeedbacks) : pageFeedbacks[k][1] = file

\* C30: a displayed result is the response of a request that was started
\* after the last Clear or file selection: the response of a request in
\* flight when Clear was pressed or the file was changed is never shown.
C30_NoStaleResult ==
  pageResult # NoResult => pageResult.epoch = epoch

====
